---- MODULE Spec2Model ----
(***************************************************************************)
(* A model of app/server.go: a one-request-per-connection HTTP server.     *)
(* Strings are sequences of bytes; a byte is a one-character string.       *)
(***************************************************************************)
EXTENDS Integers, Sequences, FiniteSets, TLC

VARIABLES
    conns,     \* per connection: the goroutine's position and the locals of handle/receive
    files,     \* the file system's regular files: cleaned path -> content
    filesDir,  \* the -directory flag
    crashed,   \* the process died of an unrecovered panic
    lastPost   \* history: the path and body of the latest POST answered 201

vars == <<conns, files, filesDir, crashed, lastPost>>

(* ------------------------------ bounds --------------------------------- *)
NumConns == 2
MaxSegs == 2

Conns == 1..NumConns

(* ------------------------------ bytes ---------------------------------- *)
CR == "\r"
LF == "\n"
CRLF == <<CR, LF>>
SP == <<" ">>
Slash == <<"/">>
ColonSp == <<":", " ">>

ok == <<"H","T","T","P","/","1",".","1"," ","2","0","0"," ","O","K">>
created == <<"H","T","T","P","/","1",".","1"," ","2","0","1"," ","C","R","E","A","T","E","D">>
not_found == <<"H","T","T","P","/","1",".","1"," ","4","0","4"," ","N","O","T"," ","F","O","U","N","D">>

s_GET == <<"G","E","T">>
s_POST == <<"P","O","S","T">>
s_PUT == <<"P","U","T">>
s_HTTP11 == <<"H","T","T","P","/","1",".","1">>
s_echo == <<"e","c","h","o">>
s_files == <<"f","i","l","e","s">>
s_user_agent == <<"u","s","e","r","-","a","g","e","n","t">>
s_UserAgent == <<"U","s","e","r","-","A","g","e","n","t">>
s_ContentLength == <<"C","o","n","t","e","n","t","-","L","e","n","g","t","h">>
s_ContentType == <<"C","o","n","t","e","n","t","-","T","y","p","e">>
s_text_plain == <<"t","e","x","t","/","p","l","a","i","n">>
s_octet_stream == <<"a","p","p","l","i","c","a","t","i","o","n","/","o","c","t","e","t","-","s","t","r","e","a","m">>
s_tmp == <<"t","m","p">>
s_dot == <<".">>

(* --------------------------- package strings --------------------------- *)
HasPrefixAt(s, i, p) ==
    /\ i + Len(p) - 1 <= Len(s)
    /\ SubSeq(s, i, i + Len(p) - 1) = p

\* strings.Index from position i on: the first index of sep, 0 when there is none
RECURSIVE IndexFrom(_, _, _)
IndexFrom(s, sep, i) ==
    IF i + Len(sep) - 1 > Len(s) THEN 0
    ELSE IF HasPrefixAt(s, i, sep) THEN i
    ELSE IndexFrom(s, sep, i + 1)

Index(s, sep) == IndexFrom(s, sep, 1)

\* strings.Split with a non-empty separator: every occurrence separates
RECURSIVE Split(_, _)
Split(s, sep) ==
    LET i == Index(s, sep) IN
    IF i = 0 THEN <<s>>
    ELSE <<SubSeq(s, 1, i - 1)>> \o Split(SubSeq(s, i + Len(sep), Len(s)), sep)

RECURSIVE Join(_, _)
Join(elems, sep) ==
    IF Len(elems) = 0 THEN <<>>
    ELSE IF Len(elems) = 1 THEN elems[1]
    ELSE elems[1] \o sep \o Join(Tail(elems), sep)

HasSuffix(s, suf) ==
    /\ Len(suf) <= Len(s)
    /\ SubSeq(s, Len(s) - Len(suf) + 1, Len(s)) = suf

TrimSuffix(s, suf) ==
    IF HasSuffix(s, suf) THEN SubSeq(s, 1, Len(s) - Len(suf)) ELSE s

\* s[n:] of a slice, n <= len(s)
SliceFrom(s, n) == SubSeq(s, n + 1, Len(s))

(* --------------------------- package strconv --------------------------- *)
Digits == <<"0","1","2","3","4","5","6","7","8","9">>

DigitVal(ch) == (CHOOSE d \in 1..10 : Digits[d] = ch) - 1

IsDigit(ch) == \E d \in 1..10 : Digits[d] = ch

\* fmt.Sprintf("%d", n) for n >= 0
RECURSIVE Itoa(_)
Itoa(n) ==
    IF n < 10 THEN <<Digits[n + 1]>>
    ELSE Itoa(n \div 10) \o <<Digits[(n % 10) + 1]>>

RECURSIVE DigitsVal(_, _)
DigitsVal(s, acc) ==
    IF Len(s) = 0 THEN acc
    ELSE DigitsVal(Tail(s), acc * 10 + DigitVal(Head(s)))

\* strconv.Atoi: an optional sign, then one or more decimal digits
Atoi(s) ==
    LET signed == Len(s) > 0 /\ Head(s) \in {"+", "-"}
        ds == IF signed THEN Tail(s) ELSE s
    IN  IF Len(ds) = 0 \/ \E i \in 1..Len(ds) : ~IsDigit(ds[i])
        THEN [err |-> TRUE, val |-> 0]
        ELSE [err |-> FALSE,
              val |-> IF signed /\ Head(s) = "-" THEN 0 - DigitsVal(ds, 0)
                      ELSE DigitsVal(ds, 0)]

(* ---------------------------- buildResponse ---------------------------- *)
\* headers is a *[]string: the nil pointer, or a pointer to a (possibly nil) slice
NilPtr == [isNil |-> TRUE, elems |-> <<>>]
Ptr(slice) == [isNil |-> FALSE, elems |-> slice]

buildResponse(protocol, headers, content) ==
    protocol \o CRLF
    \o (IF ~headers.isNil THEN Join(headers.elems, CRLF) \o CRLF ELSE <<>>)
    \o CRLF
    \o (IF Len(content) # 0 THEN content \o CRLF ELSE <<>>)

(* ----------------------------- file system ----------------------------- *)
RECURSIVE CleanSegs(_)
CleanSegs(segs) ==
    IF Len(segs) = 0 THEN <<>>
    ELSE IF Head(segs) \in {<<>>, s_dot} THEN CleanSegs(Tail(segs))
    ELSE <<Head(segs)>> \o CleanSegs(Tail(segs))

\* the components of a relative path name, "" and "." dropped
Clean(name) == CleanSegs(Split(name, Slash))

\* the name ends in "/" or "/.": it can only name a directory
MustBeDir(name) ==
    LET segs == Split(name, Slash) IN segs[Len(segs)] \in {<<>>, s_dot}

\* the directories: the working directory and the one os.MkdirAll made
Directories == {<<>>, Clean(filesDir)}

\* os.Stat: a directory, a regular file with its size, ENOENT or ENOTDIR
Stat(name) ==
    LET p == Clean(name) IN
    IF p \in Directories THEN [kind |-> "dir", size |-> 0]
    ELSE IF p \in DOMAIN files
         THEN IF MustBeDir(name) THEN [kind |-> "ENOTDIR", size |-> 0]
              ELSE [kind |-> "file", size |-> Len(files[p])]
    ELSE IF \E k \in 1..(Len(p) - 1) : SubSeq(p, 1, k) \in DOMAIN files
         THEN [kind |-> "ENOTDIR", size |-> 0]
    ELSE [kind |-> "ENOENT", size |-> 0]

\* os.Create succeeds when the name is not a directory and its parent is one
CanCreate(name) ==
    LET p == Clean(name) IN
    /\ p \notin Directories
    /\ ~MustBeDir(name)
    /\ SubSeq(p, 1, Len(p) - 1) \in Directories

\* O_TRUNC: the file exists and is empty afterwards
Truncated(p) == [q \in DOMAIN files \cup {p} |-> IF q = p THEN <<>> ELSE files[q]]

\* a write of data at offset 0 through a fresh descriptor
WriteAt0(old, data) == data \o SubSeq(old, Len(data) + 1, Len(old))

(* ------------------------------- requests ------------------------------ *)
\* what a client puts on the wire; the fields are the client's intent
HeaderLine(h) == h.k \o h.sep \o h.v

RECURSIVE HeaderBlock(_, _)
HeaderBlock(hdrs, eol) ==
    IF Len(hdrs) = 0 THEN <<>>
    ELSE HeaderLine(Head(hdrs)) \o eol \o HeaderBlock(Tail(hdrs), eol)

StartLine(r) ==
    IF ~r.hasTarget THEN r.method
    ELSE r.method \o SP \o r.target \o SP \o s_HTTP11

Wire(r) == StartLine(r) \o r.eol \o HeaderBlock(r.hdrs, r.eol) \o r.eol \o r.body

Target(segs) == Slash \o Join(segs, Slash)

SeqsUpTo(S, n) == UNION {[1..k -> S] : k \in 0..n}

Hdr(k, v) == [k |-> k, sep |-> ColonSp, v |-> v]
BadHdr(k) == [k |-> k, sep |-> <<>>, v |-> <<>>]
ContentLengthHdr(n) == Hdr(s_ContentLength, Itoa(n))

Req(method, target, hdrs, body, eol, closes) ==
    [method |-> method, hasTarget |-> TRUE, target |-> target, hdrs |-> hdrs,
     body |-> body, eol |-> eol, closes |-> closes]

EchoSegs == {<<"a">>, <<"b", "c">>}
FileSegs == {s_tmp, s_dot, <<"a">>, <<>>}
Bodies == {<<>>, <<"x">>, <<"x", "y">>}

EchoTargets == {Target(<<s_echo>> \o segs) : segs \in SeqsUpTo(EchoSegs, MaxSegs)}
FileTargets == {Target(<<s_files>> \o segs) : segs \in SeqsUpTo(FileSegs, MaxSegs)}
OtherTargets == {Target(<<>>), Target(<<s_user_agent>>), Target(<<<<"x">>>>),
                 Target(<<s_echo, <<>>>>), <<"x">>, <<>>}

PostTarget == Target(<<s_files, s_tmp, <<"a">>>>)

HeaderVariants ==
    { <<>>,
      <<Hdr(s_UserAgent, <<"a">>)>>,
      <<Hdr(s_UserAgent, <<"c", ":", " ", "d">>)>>,
      <<Hdr(s_UserAgent, <<"a">>), Hdr(s_UserAgent, <<"b">>)>>,
      <<Hdr(<<"H">>, <<"h">>)>>,
      <<BadHdr(<<"b", "a", "d">>)>>,
      <<Hdr(s_UserAgent, <<"a">>), BadHdr(<<"H", ":", "h">>)>> }

Requests ==
    \* GET of every target, no headers
    {Req(s_GET, t, <<>>, <<>>, CRLF, FALSE) :
        t \in EchoTargets \cup FileTargets \cup OtherTargets}
    \* GET with headers
    \cup {Req(s_GET, t, h, <<>>, CRLF, FALSE) :
            t \in {Target(<<>>), Target(<<s_user_agent>>), Target(<<s_echo, <<"a">>>>),
                   Target(<<<<"x">>>>)},
            h \in HeaderVariants}
    \* GET with a body
    \cup {Req(s_GET, t, <<ContentLengthHdr(1)>>, <<"x">> \o CRLF, CRLF, FALSE) :
            t \in {Target(<<>>), Target(<<s_echo, <<"a">>>>)}}
    \* POST with a body of the declared length, followed by a line end
    \cup {Req(s_POST, t, <<ContentLengthHdr(1)>>, <<"x">> \o CRLF, CRLF, FALSE) :
            t \in FileTargets \cup {Target(<<>>), Target(<<s_echo, <<"a">>>>)}}
    \cup {Req(s_POST, Target(<<s_files, d, <<"a">>>>),
              <<ContentLengthHdr(Len(b))>>, b \o CRLF, CRLF, FALSE) :
            d \in {s_dot, s_tmp}, b \in Bodies}
    \* POST with exactly the declared bytes; the client may then end the stream
    \cup {Req(s_POST, Target(<<s_files, s_tmp, <<"a">>>>),
              <<ContentLengthHdr(Len(b))>>, b, CRLF, cl) :
            b \in Bodies, cl \in BOOLEAN}
    \* other methods
    \cup {Req(s_PUT, t, <<>>, <<>>, CRLF, FALSE) :
            t \in {Target(<<>>), Target(<<s_files, <<"a">>>>)}}
    \* a start line of one token
    \cup {[Req(m, <<>>, <<>>, <<>>, CRLF, FALSE) EXCEPT !.hasTarget = FALSE] :
            m \in {s_GET, s_POST, s_PUT}}
    \* an empty request-target
    \cup {Req(m, <<>>, <<>>, <<>>, CRLF, FALSE) : m \in {s_GET, s_POST}}
    \* bare LF line ends
    \cup {Req(s_GET, Target(<<>>), h, <<>>, <<LF>>, FALSE) :
            h \in {<<>>, <<Hdr(s_UserAgent, <<"a">>)>>}}
    \* the stream ends before the request is complete
    \cup {Req(s_GET, Target(<<>>), <<>>, <<>>, <<>>, TRUE)}
    \* fewer body bytes than declared, then the stream ends
    \cup {Req(s_POST, PostTarget, <<ContentLengthHdr(2)>>, b, CRLF, TRUE) :
            b \in {<<"x">>, <<"x">> \o CRLF}}
    \* bodies with CR and LF bytes; bytes may follow the declared body
    \cup {Req(s_POST, PostTarget, <<ContentLengthHdr(3)>>, b, CRLF, FALSE) :
            b \in {<<"x", LF, "y">> \o CRLF, <<"x", CR, LF, "y", "y">> \o CRLF}}
    \* a Content-Length that is no non-negative integer
    \cup {Req(s_POST, PostTarget, <<Hdr(s_ContentLength, v)>>, <<"x">> \o CRLF, CRLF, FALSE) :
            v \in {<<"a", "b", "c">>, <<"-", "1">>, <<>>}}

\* the body a request declares: the Content-Length bytes after the blank line
DeclaredLength(r) ==
    IF \E i \in 1..Len(r.hdrs) : r.hdrs[i].k = s_ContentLength
    THEN Atoi(r.hdrs[CHOOSE i \in 1..Len(r.hdrs) : r.hdrs[i].k = s_ContentLength].v).val
    ELSE 0

DeclaredBody(r) == SubSeq(r.body, 1, DeclaredLength(r))

NoReq == Req(<<>>, <<>>, <<>>, <<>>, <<>>, FALSE)

(* ----------------------------- connections ----------------------------- *)
NoHeaders == [k \in {} |-> <<>>]

\* a connection before accept: newConnection's fields and the locals of receive.
\* inbuf is the unread part of the client's bytes, out the messages written by
\* send; req (what the client sent) and received (receive returned a request)
\* are history.
FreshConn ==
    [pc |-> "idle", req |-> NoReq, inbuf |-> <<>>,
     protocolProcessed |-> FALSE, headersProcessed |-> FALSE,
     protocol |-> <<>>, headers |-> NoHeaders,
     contentExpectedLength |-> 0, contentProcessedLength |-> 0, content |-> <<>>,
     received |-> FALSE, fileName |-> <<>>, size |-> 0,
     out |-> <<>>, err |-> "none"]

Init ==
    /\ conns = [c \in Conns |-> FreshConn]
    /\ files = [p \in {} |-> <<>>]
    /\ filesDir \in {s_dot, s_tmp}
    /\ crashed = FALSE
    /\ lastPost = [set |-> FALSE, target |-> <<>>, body |-> <<>>]

Set(c, r) == conns' = [conns EXCEPT ![c] = r]

\* a runtime panic in a goroutine without recover ends the process
Panic(c) ==
    /\ Set(c, [conns[c] EXCEPT !.pc = "panic"])
    /\ crashed' = TRUE

\* l.Accept and newConnection; the client has put its request on the wire
AcceptFrom(c, requests) ==
    /\ ~crashed
    /\ conns[c].pc \in {"idle", "closed"}
    /\ \E r \in requests :
         Set(c, [FreshConn EXCEPT !.pc = "receive", !.req = r, !.inbuf = Wire(r)])
    /\ UNCHANGED <<files, filesDir, crashed, lastPost>>

Accept(c) == AcceptFrom(c, Requests)

(* ------------------------------- receive ------------------------------- *)
\* a receive that never waits for a body
hasContentLength_never(headers) == FALSE

\* a body follows when the header is there, whatever its value
hasContentLength(headers) == s_ContentLength \in DOMAIN headers

\* one iteration of the loop of receive in which ReadString finds a '\n'
receiveLine(k, line) ==
    IF ~k.protocolProcessed
    THEN [k EXCEPT !.protocol = line, !.protocolProcessed = TRUE]
    ELSE IF ~k.headersProcessed
    THEN IF Len(line) = 0
         THEN IF ~hasContentLength(k.headers)
              THEN [k EXCEPT !.headersProcessed = TRUE, !.received = TRUE,
                             !.pc = "handle"]
              ELSE LET n == Atoi(k.headers[s_ContentLength]) IN
                   IF n.err
                   THEN [k EXCEPT !.headersProcessed = TRUE, !.pc = "done",
                                  !.err = "failed to receive request"]
                   ELSE [k EXCEPT !.headersProcessed = TRUE,
                                  !.contentExpectedLength = n.val]
         ELSE LET headerSplit == Split(line, ColonSp) IN
              IF Len(headerSplit) < 2
              THEN [k EXCEPT !.pc = "panic"]
              ELSE [k EXCEPT !.headers =
                        [h \in DOMAIN k.headers \cup {headerSplit[1]} |->
                            IF h = headerSplit[1] THEN headerSplit[2]
                            ELSE k.headers[h]]]
    ELSE LET processed == k.contentProcessedLength + Len(line) IN
         IF processed = k.contentExpectedLength
         THEN [k EXCEPT !.content = k.content \o line,
                        !.contentProcessedLength = processed,
                        !.received = TRUE, !.pc = "handle"]
         ELSE [k EXCEPT !.content = k.content \o line,
                        !.contentProcessedLength = processed]

\* ReadString has a line to return: the unread bytes hold a '\n'
HasLine(k) == Index(k.inbuf, <<LF>>) # 0

\* ReadString returns io.EOF: no '\n' any more and the client has ended the stream
AtEOF(k) == ~HasLine(k) /\ k.req.closes

ReceiveLine(c) ==
    /\ ~crashed
    /\ conns[c].pc = "receive"
    /\ HasLine(conns[c])
    /\ LET i == Index(conns[c].inbuf, <<LF>>)
           line == TrimSuffix(SubSeq(conns[c].inbuf, 1, i), CRLF)
           rest == SubSeq(conns[c].inbuf, i + 1, Len(conns[c].inbuf))
           k == receiveLine([conns[c] EXCEPT !.inbuf = rest], line)
       IN  /\ Set(c, k)
           /\ crashed' = (k.pc = "panic")
    /\ UNCHANGED <<files, filesDir, lastPost>>

\* ReadString returns io.EOF: the break leaves the select only, and the loop
\* goes on reading the ended stream for ever
ReceiveEOF(c) ==
    /\ ~crashed
    /\ conns[c].pc = "receive"
    /\ AtEOF(conns[c])
    /\ Set(c, [conns[c] EXCEPT !.inbuf = <<>>, !.pc = "spin"])
    /\ UNCHANGED <<files, filesDir, crashed, lastPost>>

(* ------------------------------- handlers ------------------------------ *)
requestVerb(protocol) == Split(protocol, SP)[1]

contentTypeHeader(type) == s_ContentType \o ColonSp \o type
contentLengthHeader(n) == s_ContentLength \o ColonSp \o Itoa(n)

\* the root test with its length off by one
isRoot_lenOne(pathSplit) == Len(pathSplit) = 1

isRoot(pathSplit) == Len(pathSplit) = 2 /\ pathSplit[2] = <<>>

\* the echoed segments taken from pathSplit[1:], the route segment included
echoContent_fromRoute(pathSplit) == Join(SliceFrom(pathSplit, 1), Slash)

echoContent(pathSplit) == Join(SliceFrom(pathSplit, 2), Slash)

\* a map read: the zero value when the key is absent
userAgentContent(headers) ==
    IF s_UserAgent \in DOMAIN headers THEN headers[s_UserAgent] ELSE <<>>

textHeaders(stringContent) ==
    <<contentTypeHeader(s_text_plain), contentLengthHeader(Len(stringContent))>>

fileHeaders(size) ==
    <<contentTypeHeader(s_octet_stream), contentLengthHeader(size)>>

getFileName(pathSplit) == filesDir \o Slash \o Join(SliceFrom(pathSplit, 2), Slash)

postFileName(pathSplit) == Join(SliceFrom(pathSplit, 2), Slash)

postNotFound(pathSplit) ==
    \/ Len(pathSplit) < 4
    \/ pathSplit[2] # s_files
    \/ pathSplit[3] # filesDir

Send(k, message) == [k EXCEPT !.out = k.out \o <<message>>]

Done(k) == [k EXCEPT !.pc = "done"]

\* handleGet up to its return, or up to the os.Open of an existing file
handleGet(k) ==
    LET startLine == Split(k.protocol, SP) IN
    IF Len(startLine) < 2 THEN [k EXCEPT !.pc = "panic"]
    ELSE
    LET pathSplit == Split(startLine[2], Slash) IN
    IF isRoot(pathSplit) THEN Done(Send(k, buildResponse(ok, NilPtr, <<>>)))
    ELSE IF Len(pathSplit) < 2 THEN [k EXCEPT !.pc = "panic"]
    ELSE IF pathSplit[2] = s_echo
    THEN LET stringContent == echoContent(pathSplit) IN
         Done(Send(k, buildResponse(ok, Ptr(textHeaders(stringContent)), stringContent)))
    ELSE IF pathSplit[2] = s_user_agent
    THEN LET stringContent == userAgentContent(k.headers) IN
         Done(Send(k, buildResponse(ok, Ptr(textHeaders(stringContent)), stringContent)))
    ELSE IF pathSplit[2] = s_files
    THEN LET fileName == getFileName(pathSplit)
             fileInfo == Stat(fileName)
         IN  IF fileInfo.kind = "ENOENT" \/ fileInfo.kind = "dir"
             THEN Done(Send(k, buildResponse(not_found, Ptr(<<>>), <<>>)))
             ELSE IF fileInfo.kind = "ENOTDIR"
             THEN [k EXCEPT !.pc = "panic"]
             ELSE [k EXCEPT !.pc = "get_read", !.fileName = fileName,
                            !.size = fileInfo.size]
    ELSE Done(Send(Send(k, buildResponse(not_found, NilPtr, <<>>)),
                   buildResponse(not_found, Ptr(<<>>), <<>>)))

HandleGet(c) ==
    /\ ~crashed
    /\ conns[c].pc = "handle"
    /\ requestVerb(conns[c].protocol) = s_GET
    /\ Set(c, handleGet(conns[c]))
    /\ crashed' = (handleGet(conns[c]).pc = "panic")
    /\ UNCHANGED <<files, filesDir, lastPost>>

\* os.Open, io.ReadAll, the header block and the file content
GetRead(c) ==
    /\ ~crashed
    /\ conns[c].pc = "get_read"
    /\ LET fileContent == files[Clean(conns[c].fileName)] IN
       Set(c, Done(Send(Send(conns[c],
                buildResponse(ok, Ptr(fileHeaders(conns[c].size)), <<>>)),
                fileContent)))
    /\ UNCHANGED <<files, filesDir, crashed, lastPost>>

\* handlePost up to its return, or up to a successful os.Create
HandlePost(c) ==
    LET k == conns[c]
        startLine == Split(k.protocol, SP)
        pathSplit == Split(startLine[2], Slash)
        fileName == postFileName(pathSplit)
    IN
    /\ ~crashed
    /\ k.pc = "handle"
    /\ requestVerb(k.protocol) = s_POST
    /\ IF Len(startLine) < 2
       THEN Panic(c) /\ UNCHANGED files
       ELSE IF postNotFound(pathSplit)
       THEN /\ Set(c, Done(Send(k, buildResponse(not_found, NilPtr, <<>>))))
            /\ UNCHANGED <<files, crashed>>
       ELSE IF ~CanCreate(fileName)
       THEN /\ Set(c, [k EXCEPT !.pc = "done",
                                !.err = "failed to handle POST request"])
            /\ UNCHANGED <<files, crashed>>
       ELSE /\ Set(c, [k EXCEPT !.pc = "post_write", !.fileName = fileName])
            /\ files' = Truncated(Clean(fileName))
            /\ UNCHANGED crashed
    /\ UNCHANGED <<filesDir, lastPost>>

\* file.WriteString, the 201 response, the deferred file.Close
PostWrite(c) ==
    LET k == conns[c]
        p == Clean(k.fileName)
    IN
    /\ ~crashed
    /\ k.pc = "post_write"
    /\ files' = [files EXCEPT ![p] = WriteAt0(files[p], k.content)]
    /\ Set(c, Done(Send(k, buildResponse(created, NilPtr, <<>>))))
    /\ lastPost' = [set |-> TRUE, target |-> k.req.target,
                    body |-> DeclaredBody(k.req)]
    /\ UNCHANGED <<filesDir, crashed>>

\* any other verb: handle returns an error, nothing is written
HandleOther(c) ==
    /\ ~crashed
    /\ conns[c].pc = "handle"
    /\ requestVerb(conns[c].protocol) \notin {s_GET, s_POST}
    /\ Set(c, [conns[c] EXCEPT !.pc = "done",
                               !.err = "invalid/unsupported request verb"])
    /\ UNCHANGED <<files, filesDir, crashed, lastPost>>

\* handle has returned; the deferred c.close() runs and the goroutine ends
Close(c) ==
    /\ ~crashed
    /\ conns[c].pc = "done"
    /\ Set(c, [FreshConn EXCEPT !.pc = "closed"])
    /\ UNCHANGED <<files, filesDir, crashed, lastPost>>

(* ---------------------------- specifications --------------------------- *)
Step(c) ==
    \/ Accept(c)
    \/ ReceiveLine(c)
    \/ ReceiveEOF(c)
    \/ HandleGet(c)
    \/ GetRead(c)
    \/ HandlePost(c)
    \/ PostWrite(c)
    \/ HandleOther(c)
    \/ Close(c)

\* one connection at a time
Next == Step(1)

Spec == Init /\ [][Next]_vars

\* what the goroutine of connection c can do once it is accepted
Serve(c) ==
    \/ ReceiveLine(c)
    \/ ReceiveEOF(c)
    \/ HandleGet(c)
    \/ GetRead(c)
    \/ HandlePost(c)
    \/ PostWrite(c)
    \/ HandleOther(c)
    \/ Close(c)

\* the goroutine of connection c has a next step: it is in a handler or at
\* its deferred close, or in receive with a line or an EOF to read; otherwise
\* it has ended, is blocked in ReadString, or repeats the read of an ended
\* stream without end
Runnable(c) ==
    /\ ~crashed
    /\ \/ conns[c].pc \in {"handle", "get_read", "post_write", "done"}
       \/ conns[c].pc = "receive" /\ (HasLine(conns[c]) \/ AtEOF(conns[c]))

\* the requests of the concurrent runs: two writes of one file, a read of it,
\* an echo, a malformed header line, an unsupported verb and an early end
ConcRequests ==
    {Req(s_POST, Target(<<s_files, filesDir, <<"a">>>>),
         <<ContentLengthHdr(Len(b))>>, b \o CRLF, CRLF, FALSE) :
        b \in {<<"x", "y">>, <<"z">>}}
    \cup {Req(s_GET, Target(<<s_files, <<"a">>>>), <<>>, <<>>, CRLF, FALSE),
          Req(s_GET, Target(<<s_echo, <<"a">>>>), <<>>, <<>>, CRLF, FALSE),
          Req(s_GET, Target(<<>>), <<BadHdr(<<"b", "a", "d">>)>>, <<>>, CRLF, FALSE),
          Req(s_PUT, Target(<<>>), <<>>, <<>>, CRLF, FALSE),
          Req(s_GET, Target(<<>>), <<>>, <<>>, <<>>, TRUE)}

ConcAccept(c) == AcceptFrom(c, ConcRequests)

\* one goroutine per accepted connection
NextConc == \E c \in Conns : ConcAccept(c) \/ Serve(c)

SpecConc == Init /\ [][NextConc]_vars

(* ------------------------- the client's view --------------------------- *)
RECURSIVE Flatten(_)
Flatten(msgs) == IF Len(msgs) = 0 THEN <<>> ELSE Head(msgs) \o Flatten(Tail(msgs))

\* every byte the server wrote to the connection, in order
WireOut(k) == Flatten(k.out)

\* a response as a client reads it: the status line, the header lines up to
\* the first blank line, and every byte after that blank line
Response(w) ==
    LET i == Index(w, CRLF \o CRLF)
        lines == Split(SubSeq(w, 1, i - 1), CRLF)
    IN  [status |-> lines[1], headers |-> Tail(lines),
         rest |-> SubSeq(w, i + 4, Len(w))]

HeaderValue(line, name) == SubSeq(line, Len(name) + 3, Len(line))

IsHeader(line, name) == HasPrefixAt(line, 1, name \o ColonSp)

\* status, Content-Type and Content-Length headers, and body; the body is the
\* Content-Length bytes after the blank line
IsContentResponse(w, status, type, body) ==
    LET resp == Response(w) IN
    /\ resp.status = status
    /\ Len(resp.headers) = 2
    /\ resp.headers[1] = s_ContentType \o ColonSp \o type
    /\ IsHeader(resp.headers[2], s_ContentLength)
    /\ ~Atoi(HeaderValue(resp.headers[2], s_ContentLength)).err
    /\ Atoi(HeaderValue(resp.headers[2], s_ContentLength)).val = Len(body)
    /\ Len(resp.rest) >= Len(body)
    /\ SubSeq(resp.rest, 1, Len(body)) = body

\* a status line, no headers, no body
IsBareResponse(w, status) == w = status \o CRLF \o CRLF

StatusLines == {ok, created, not_found}

RECURSIVE CountIn(_, _)
CountIn(lines, S) ==
    IF Len(lines) = 0 THEN 0
    ELSE (IF Head(lines) \in S THEN 1 ELSE 0) + CountIn(Tail(lines), S)

NumStatusLines(w) == CountIn(Split(w, CRLF), StatusLines)

\* receive returned the request and the handler ran to its end
Handled(k) == k.received /\ k.pc \in {"done", "panic"}

\* ... and returned to handle's caller
Returned(k) == k.received /\ k.pc = "done"

\* the request-target is /route or /route/...
Under(r, route) ==
    /\ r.hasTarget
    /\ \/ r.target = Slash \o route
       \/ HasPrefixAt(r.target, 1, Slash \o route \o Slash)

\* what follows /route/ in the request-target
Remaining(r, route) == SubSeq(r.target, Len(route) + 3, Len(r.target))

\* the first path segment of a request-target that starts with "/"
FirstSegment(target) ==
    LET j == IndexFrom(target, Slash, 2) IN
    IF j = 0 THEN SubSeq(target, 2, Len(target)) ELSE SubSeq(target, 2, j - 1)

\* the User-Agent value the client sent: that of the last such header line
SentUserAgent(r) ==
    LET S == {i \in 1..Len(r.hdrs) : r.hdrs[i].k = s_UserAgent /\ r.hdrs[i].sep = ColonSp} IN
    IF S = {} THEN <<>>
    ELSE r.hdrs[CHOOSE i \in S : \A j \in S : j <= i].v

HasMalformedHeader(r) ==
    \E i \in 1..Len(r.hdrs) : Index(HeaderLine(r.hdrs[i]), ColonSp) = 0

(* ------------------------------- claims -------------------------------- *)
\* a file name of one plain segment
PlainName(name) == Index(name, Slash) = 0 /\ name \notin {<<>>, s_dot}

\* C1: a POST /files/<name> with a body of the declared Content-Length writes
\* exactly that body to <configured-directory>/<name> and is answered 201 with
\* no headers and no body.
C1_PostWritesBody ==
    \A c \in Conns :
        LET k == conns[c]
            r == k.req
            p == Clean(filesDir \o Slash \o Remaining(r, s_files))
        IN  (/\ Handled(k)
             /\ r.method = s_POST
             /\ Under(r, s_files)
             /\ PlainName(Remaining(r, s_files)))
            => /\ IsBareResponse(WireOut(k), created)
               /\ p \in DOMAIN files
               /\ files[p] = DeclaredBody(r)

\* C2: after a POST to a path under /files with body B was answered 201 and
\* nothing else wrote the file, a GET of the same path is answered 200 with
\* body exactly B.
C2_PostGetRoundTrip ==
    \A c \in Conns :
        LET k == conns[c]
            r == k.req
        IN  (/\ Handled(k)
             /\ r.method = s_GET
             /\ r.hasTarget
             /\ lastPost.set
             /\ r.target = lastPost.target)
            => IsContentResponse(WireOut(k), ok, s_octet_stream, lastPost.body)

\* C3: GET /files/<name> is answered 404 with no body when
\* <configured-directory>/<name> does not exist, is a directory or no name is
\* given, and 200 with Content-Type application/octet-stream, Content-Length
\* the file's size and the file's bytes as body when it is a regular file.
C3_GetFile ==
    \A c \in Conns :
        LET k == conns[c]
            r == k.req
            name == filesDir \o Slash \o Remaining(r, s_files)
            p == Clean(name)
        IN  (/\ Handled(k)
             /\ r.method = s_GET
             /\ Under(r, s_files))
            => IF p \in DOMAIN files /\ ~MustBeDir(name)
               THEN /\ IsContentResponse(WireOut(k), ok, s_octet_stream, files[p])
                    /\ Len(Response(WireOut(k)).rest) = Len(files[p])
               ELSE IsBareResponse(WireOut(k), not_found)

\* C4: GET /echo/<s1>/.../<sk> is answered 200 with Content-Type text/plain,
\* Content-Length the byte length of s1/.../sk, and that string as body.
C4_Echo ==
    \A c \in Conns :
        LET k == conns[c]
            r == k.req
        IN  (/\ Handled(k)
             /\ r.method = s_GET
             /\ Under(r, s_echo))
            => IsContentResponse(WireOut(k), ok, s_text_plain, Remaining(r, s_echo))

\* a GET /echo/a/bc has been answered
C4_Witness ==
    \E c \in Conns :
        /\ Handled(conns[c])
        /\ conns[c].req.method = s_GET
        /\ conns[c].req.hasTarget
        /\ conns[c].req.target = Target(<<s_echo, <<"a">>, <<"b", "c">>>>)
        /\ conns[c].out # <<>>

\* C5: GET /user-agent is answered 200 with Content-Type text/plain and, as
\* body, the value of the User-Agent header as sent on the wire (empty when
\* absent), with Content-Length that value's byte length.
C5_UserAgent ==
    \A c \in Conns :
        LET k == conns[c]
            r == k.req
        IN  (/\ Handled(k)
             /\ r.method = s_GET
             /\ r.hasTarget
             /\ r.target = Target(<<s_user_agent>>))
            => IsContentResponse(WireOut(k), ok, s_text_plain, SentUserAgent(r))

\* C6: GET / is answered exactly 200 with no headers and no body, whatever
\* headers the request carries.
C6_Root ==
    \A c \in Conns :
        LET k == conns[c]
            r == k.req
        IN  (/\ Handled(k)
             /\ r.method = s_GET
             /\ r.hasTarget
             /\ r.target = Slash)
            => IsBareResponse(WireOut(k), ok)

\* a GET / that carried headers has been answered
C6_Witness ==
    \E c \in Conns :
        /\ Handled(conns[c])
        /\ conns[c].req.method = s_GET
        /\ conns[c].req.hasTarget
        /\ conns[c].req.target = Slash
        /\ Len(conns[c].req.hdrs) > 0
        /\ conns[c].out # <<>>

\* the (method, first path segment) of the request is none of the routes
Unlisted(r) ==
    /\ r.hasTarget
    /\ HasPrefixAt(r.target, 1, Slash)
    /\ \/ r.method \notin {s_GET, s_POST}
       \/ r.method = s_POST /\ FirstSegment(r.target) # s_files
       \/ r.method = s_GET
            /\ FirstSegment(r.target) \notin {<<>>, s_echo, s_user_agent, s_files}

\* C7: every request whose (method, first path segment) is not a listed
\* route is answered 404 with no headers and no body.
C7_UnlistedIs404 ==
    \A c \in Conns :
        (Handled(conns[c]) /\ Unlisted(conns[c].req))
            => IsBareResponse(WireOut(conns[c]), not_found)

\* C8: every request that is answered gets exactly one status line on its
\* connection.
C8_OneStatusLine ==
    \A c \in Conns :
        (Returned(conns[c]) /\ conns[c].out # <<>>)
            => NumStatusLines(WireOut(conns[c])) = 1

\* C9: every response has exactly one blank line after its header block; a
\* response without headers and body is exactly status-line CRLF CRLF.
C9_OneBlankLine ==
    \A c \in Conns :
        (Returned(conns[c]) /\ conns[c].out # <<>>)
            => LET resp == Response(WireOut(conns[c])) IN
               Len(resp.headers) = 0 => resp.rest = <<>>

\* C10: a header line without ": " aborts the connection without a response
\* and reaches the caller as an error value; nothing panics.
C10_MalformedHeaderIsError ==
    \A c \in Conns :
        HasMalformedHeader(conns[c].req)
            => /\ conns[c].pc # "panic"
               /\ conns[c].out = <<>>
               /\ conns[c].pc = "done"
                    => conns[c].err = "failed to receive request"

\* the request has a header line of that name
Sent(r, name) == \E i \in 1..Len(r.hdrs) : r.hdrs[i].k = name

\* the value of the Content-Length header line the client sent
SentContentLength(r) ==
    r.hdrs[CHOOSE i \in 1..Len(r.hdrs) : r.hdrs[i].k = s_ContentLength].v

\* the client declared n body bytes, sent fewer and ended the stream
TruncatedBody(r) ==
    /\ r.closes
    /\ Sent(r, s_ContentLength)
    /\ ~Atoi(SentContentLength(r)).err
    /\ Len(r.body) < Atoi(SentContentLength(r)).val

\* C11: when the client declares Content-Length n, sends fewer than n body
\* bytes and ends the stream, the parser returns no request and nothing is
\* written, and the parser has a next step until it has returned an error.
C11_TruncatedBodyIsError ==
    \A c \in Conns :
        TruncatedBody(conns[c].req)
            => /\ ~conns[c].received
               /\ conns[c].out = <<>>
               /\ \/ conns[c].pc = "done" /\ conns[c].err = "failed to receive request"
                  \/ Runnable(c)

\* C12: whenever the parser returns a request that carried Content-Length n,
\* the request's body is exactly the n bytes after the blank line on the wire,
\* whatever those bytes are, CR and LF included.
C12_BodyIsDeclaredBytes ==
    \A c \in Conns :
        (conns[c].received /\ Sent(conns[c].req, s_ContentLength))
            => conns[c].content = DeclaredBody(conns[c].req)

\* the bytes of the client's request the server has read so far
Consumed(k) == Len(Wire(k.req)) - Len(k.inbuf)

\* the start line, the header block and the blank line of a request
HeadLength(r) == Len(Wire(r)) - Len(r.body)

\* receive has returned the request, having read its start line, its whole
\* header block and, when Content-Length was sent, the declared body
CompleteRequestRead(k) ==
    /\ k.received
    /\ k.headersProcessed
    /\ Consumed(k) >= HeadLength(k.req)
    /\ Sent(k.req, s_ContentLength)
         => /\ Consumed(k) >= HeadLength(k.req) + DeclaredLength(k.req)
            /\ Len(k.content) = DeclaredLength(k.req)

\* C13: within one connection no response byte is written before the parser
\* has returned the complete request: whatever is on the connection was
\* written after receive had completed successfully (received stays set from
\* the return of receive to the close of the connection).
C13_ResponseAfterRequest ==
    \A c \in Conns :
        conns[c].out # <<>> => CompleteRequestRead(conns[c])

\* a request with a body has been answered
C13_Witness ==
    \E c \in Conns :
        /\ conns[c].out # <<>>
        /\ Sent(conns[c].req, s_ContentLength)
        /\ DeclaredLength(conns[c].req) > 0

\* the handling of an accepted connection is on one of its exit paths: handle
\* is past receive or has returned, or the client has ended the stream
OnExitPath(k) ==
    /\ k.pc \notin {"idle", "closed", "panic"}
    /\ k.pc # "receive" \/ k.req.closes

\* C14: every accepted connection is eventually closed on every exit path,
\* after success, parser failure, handler failure and an early end of the
\* stream: until it is closed, its goroutine has a next step (a panic runs
\* the deferred close while it ends the process).
C14_EventuallyClosed ==
    \A c \in Conns :
        (OnExitPath(conns[c]) /\ ~crashed) => Runnable(c)

\* the start line has no path token: one token only, or an empty target
LacksPath(r) == ~r.hasTarget \/ r.target = <<>>

\* a GET or POST with a request-target that starts with "/", well-formed
\* header lines and CRLF line ends, on a stream the client keeps open
ValidRequest(r) ==
    /\ ~LacksPath(r)
    /\ Head(r.target) = "/"
    /\ r.method \in {s_GET, s_POST}
    /\ r.eol = CRLF
    /\ ~r.closes
    /\ ~HasMalformedHeader(r)

\* C15: concurrent connections are independent: when the handling of one
\* connection fails, every other connection that carries a valid request
\* still gets its complete response. After a panic nothing runs any more, so
\* the other connections must have been answered by then.
C15_FailureAbortsOnlyItsConnection ==
    \A c \in Conns :
        (/\ crashed
         /\ conns[c].pc \notin {"idle", "closed", "panic"}
         /\ ValidRequest(conns[c].req))
            => conns[c].pc = "done" /\ conns[c].out # <<>>

\* the connection's POST has been answered 201
Created(k) ==
    /\ k.pc = "done"
    /\ k.req.method = s_POST
    /\ IsBareResponse(WireOut(k), created)

\* C16: concurrent writes of one path are last-writer-wins: when two POSTs to
\* the same path with different bodies are handled at the same time and both
\* are answered 201, the file holds exactly one of the two bodies.
C16_LastWriterWins ==
    \A c1, c2 \in Conns :
        (/\ c1 # c2
         /\ Created(conns[c1])
         /\ Created(conns[c2])
         /\ conns[c1].req.target = conns[c2].req.target
         /\ DeclaredBody(conns[c1].req) # DeclaredBody(conns[c2].req))
            => files[Clean(conns[c1].fileName)]
                   \in {DeclaredBody(conns[c1].req), DeclaredBody(conns[c2].req)}

\* C17: a request whose start line has no space-delimited path token is
\* rejected with an error value that aborts the connection: nothing panics,
\* nothing is written, and handle returns an error.
C17_MissingPathIsError ==
    \A c \in Conns :
        LacksPath(conns[c].req)
            => /\ conns[c].pc # "panic"
               /\ conns[c].out = <<>>
               /\ conns[c].pc = "done" => conns[c].err # "none"

\* a complete request and nothing more: after the blank line come exactly the
\* Content-Length bytes, or nothing when there is no Content-Length
ExactRequest(r) ==
    /\ ValidRequest(r)
    /\ IF Sent(r, s_ContentLength)
       THEN /\ ~Atoi(SentContentLength(r)).err
            /\ Atoi(SentContentLength(r)).val = Len(r.body)
       ELSE r.body = <<>>

\* C18: once the client has sent a complete request, with exactly the
\* Content-Length bytes of body when there is one, and keeps the connection
\* open, a response is eventually written without anything more from the
\* client: until the response is there, the connection's goroutine has a next
\* step on the bytes it has.
C18_CompleteRequestIsAnswered ==
    \A c \in Conns :
        (ExactRequest(conns[c].req) /\ conns[c].pc \notin {"idle", "closed"})
            => conns[c].out # <<>> \/ Runnable(c)

\* the value of the last header line of that name the client sent
LastValue(r, name) ==
    r.hdrs[CHOOSE i \in 1..Len(r.hdrs) :
              /\ r.hdrs[i].k = name
              /\ \A j \in 1..Len(r.hdrs) : r.hdrs[j].k = name => j <= i].v

\* C19: each header line is split once, at its first ": ": once the header
\* block is read, the map holds for every line N: V the whole of V, ": " in
\* it included, and for a name sent more than once the value of its last line.
C19_HeaderSplitOnce ==
    \A c \in Conns :
        LET k == conns[c]
            r == k.req
        IN  (k.headersProcessed /\ r.eol = CRLF /\ ~HasMalformedHeader(r))
            => \A i \in 1..Len(r.hdrs) :
                 /\ r.hdrs[i].k \in DOMAIN k.headers
                 /\ k.headers[r.hdrs[i].k] = LastValue(r, r.hdrs[i].k)

\* the Content-Length value is not a non-negative integer
InvalidContentLength(r) ==
    /\ Sent(r, s_ContentLength)
    /\ \/ Atoi(SentContentLength(r)).err
       \/ Atoi(SentContentLength(r)).val < 0

\* C20: a Content-Length that is not a non-negative integer makes the parser
\* terminate with an error: no request is returned, nothing is written, and
\* the parser has a next step until it has returned the error.
C20_InvalidContentLengthIsError ==
    \A c \in Conns :
        InvalidContentLength(conns[c].req)
            => /\ ~conns[c].received
               /\ conns[c].out = <<>>
               /\ \/ conns[c].pc = "done" /\ conns[c].err = "failed to receive request"
                  \/ Runnable(c)

\* the header map of a request whose header lines are all well formed
SentHeaders(r) ==
    [name \in {r.hdrs[i].k : i \in 1..Len(r.hdrs)} |-> LastValue(r, name)]

\* C21: a request whose lines end in a bare LF is parsed as the same request
\* with CRLF line ends: nothing panics, the start line and the header map are
\* those the client sent, and the LF-only blank line ends the header block.
C21_BareLFAsCRLF ==
    \A c \in Conns :
        LET k == conns[c]
            r == k.req
        IN  (r.eol = <<LF>> /\ ~HasMalformedHeader(r))
            => /\ k.pc # "panic"
               /\ k.protocolProcessed => k.protocol = StartLine(r)
               /\ Consumed(k) >= HeadLength(r)
                    => k.headersProcessed /\ k.headers = SentHeaders(r)

\* C22: every 200 response to GET /files/<name> carries a Content-Length equal
\* to the number of bytes written after its header block, whatever a POST to
\* the same file does at the same time.
C22_ContentLengthIsBytesWritten ==
    \A c \in Conns :
        LET k == conns[c]
            resp == Response(WireOut(k))
        IN  (/\ Returned(k)
             /\ k.req.method = s_GET
             /\ Under(k.req, s_files)
             /\ k.out # <<>>
             /\ resp.status = ok)
            => \E i \in 1..Len(resp.headers) :
                 /\ IsHeader(resp.headers[i], s_ContentLength)
                 /\ Atoi(HeaderValue(resp.headers[i], s_ContentLength)).val
                        = Len(resp.rest)

====
